---- MODULE Spec2Model ----
(***************************************************************************)
(* Model of the Windows implementation of react-native-sensitive-info:     *)
(* windows/code/RNSensitiveInfoCPP.cpp.  The module RNSensitiveInfo maps    *)
(* getItem / setItem / deleteItem / getAllItems and two capability probes   *)
(* onto Windows.Security.Credentials.PasswordVault.                         *)
(*                                                                         *)
(* std::string is a sequence of UTF-8 bytes, hstring a sequence of UTF-16   *)
(* code units; winrt::to_hstring and winrt::to_string convert between them. *)
(* The vault is a set of credentials (Resource, UserName, Password), all    *)
(* hstrings.  Every vault call is one atomic step; handlers that make more  *)
(* than one vault call (deleteItem, getAllItems) can be interleaved with    *)
(* other invocations between their calls.                                   *)
(*                                                                         *)
(* PasswordVault behaves as the platform documents it: Retrieve and         *)
(* FindAllByResource raise an error (element not found) when nothing        *)
(* matches, and never hand back a null credential; Add replaces the         *)
(* credential with the same resource and user name.  Besides that, every    *)
(* vault call may fail with a platform exception (input "fault").           *)
(***************************************************************************)
EXTENDS Integers, Sequences, FiniteSets, TLC

\* ------------------------------------------------------------------ bounds

\* Number of invocations the application makes in one run.
MaxCalls == 3

\* Concurrent callers of the module (threads or instances sharing the vault).
Procs == {"p1", "p2"}

\* ------------------------------------------------------------ input strings

\* std::string inputs, as UTF-8 bytes: "", "a", "é" (C3 A9).
EmptyString == <<>>
KeyA == <<97>>
KeyE == <<195, 169>>
Keys == {EmptyString, KeyA, KeyE}

\* "1" and U+1F600 (F0 9F 98 80, a surrogate pair in UTF-16).
Value1 == <<49>>
ValueGrin == <<240, 159, 152, 128>>
Values == {Value1, ValueGrin}

\* The literal "shared_preferences".
SharedPreferencesLiteral ==
  <<115, 104, 97, 114, 101, 100, 95, 112, 114, 101, 102, 101, 114, 101, 110, 99, 101, 115>>

\* Another collection name: "o".
OtherName == <<111>>

\* JSValueObject options: a map from field names to (string) values.
NoOptions == [f \in {} |-> EmptyString]
OptionsOf(name) == [f \in {"sharedPreferencesName"} |-> name]
Options == {NoOptions, OptionsOf(SharedPreferencesLiteral), OptionsOf(OtherName)}

\* ------------------------------------------------------------- conversions

\* winrt::to_hstring(std::string): UTF-8 to UTF-16 (MultiByteToWideChar,
\* CP_UTF8); a byte that starts no well-formed sequence becomes U+FFFD.
RECURSIVE to_hstring(_)
to_hstring(s) ==
  IF s = <<>> THEN <<>>
  ELSE LET n == Len(s)
           b == s[1]
           IsCont(i) == i <= n /\ s[i] >= 128 /\ s[i] < 192
           Low(i) == s[i] - 128
       IN IF b < 128
            THEN <<b>> \o to_hstring(Tail(s))
          ELSE IF b >= 194 /\ b < 224 /\ IsCont(2)
            THEN <<(b - 192) * 64 + Low(2)>> \o to_hstring(SubSeq(s, 3, n))
          ELSE IF b >= 224 /\ b < 240 /\ IsCont(2) /\ IsCont(3)
            THEN <<(b - 224) * 4096 + Low(2) * 64 + Low(3)>>
                   \o to_hstring(SubSeq(s, 4, n))
          ELSE IF b >= 240 /\ b < 245 /\ IsCont(2) /\ IsCont(3) /\ IsCont(4)
            THEN LET cp == (b - 240) * 262144 + Low(2) * 4096 + Low(3) * 64 + Low(4)
                     c == cp - 65536
                 IN <<55296 + (c \div 1024), 56320 + (c % 1024)>>
                      \o to_hstring(SubSeq(s, 5, n))
          ELSE <<65533>> \o to_hstring(Tail(s))

\* winrt::to_string(hstring): UTF-16 to UTF-8 (WideCharToMultiByte, CP_UTF8);
\* an unpaired surrogate becomes U+FFFD (EF BF BD).
RECURSIVE to_string(_)
to_string(h) ==
  IF h = <<>> THEN <<>>
  ELSE LET n == Len(h)
           u == h[1]
       IN IF u < 128
            THEN <<u>> \o to_string(Tail(h))
          ELSE IF u < 2048
            THEN <<192 + (u \div 64), 128 + (u % 64)>> \o to_string(Tail(h))
          ELSE IF u >= 55296 /\ u < 56320 /\ n >= 2 /\ h[2] >= 56320 /\ h[2] < 57344
            THEN LET cp == 65536 + (u - 55296) * 1024 + (h[2] - 56320)
                 IN <<240 + (cp \div 262144), 128 + ((cp \div 4096) % 64),
                      128 + ((cp \div 64) % 64), 128 + (cp % 64)>>
                      \o to_string(SubSeq(h, 3, n))
          ELSE IF u >= 55296 /\ u < 57344
            THEN <<239, 191, 189>> \o to_string(Tail(h))
          ELSE <<224 + (u \div 4096), 128 + ((u \div 64) % 64), 128 + (u % 64)>>
                 \o to_string(Tail(h))

\* JSValue::AsString of a string value.
AsString(v) == v

\* Mutant of getSharedPreferences: the option is never looked up.
getSharedPreferences_IgnoresOptions(options) == SharedPreferencesLiteral

\* static std::string getSharedPreferences(JSValueObject const& options)
getSharedPreferences(options) ==
  IF "sharedPreferencesName" \in DOMAIN options
    THEN AsString(options["sharedPreferencesName"])
    ELSE SharedPreferencesLiteral

\* ------------------------------------------------------------ the promise

\* ReactPromise<T>: Resolve(value) / Reject(reason).  A completion keeps one
\* field per result type: string (getItem, setItem, deleteItem), object
\* (getAllItems), bool (the probes).
EmptyObject == [k \in {} |-> EmptyString]
ResolveString(s) ==
  [kind |-> "resolve", reason |-> "", str |-> s, obj |-> EmptyObject, flag |-> FALSE]
ResolveObject(m) ==
  [kind |-> "resolve", reason |-> "", str |-> EmptyString, obj |-> m, flag |-> FALSE]
ResolveBool(b) ==
  [kind |-> "resolve", reason |-> "", str |-> EmptyString, obj |-> EmptyObject, flag |-> b]
Reject(reason) ==
  [kind |-> "reject", reason |-> reason, str |-> EmptyString, obj |-> EmptyObject,
   flag |-> FALSE]

\* ---------------------------------------------------------- PasswordVault

\* PasswordCredential(resource, userName, password)
PasswordCredential(resource, userName, password) ==
  [Resource |-> resource, UserName |-> userName, Password |-> password]

\* A projected reference is null or refers to one object: the empty set or a
\* singleton.  "!data" is data = {}.
NullRef == {}
RefTo(c) == {c}
Deref(ref) == CHOOSE c \in ref : TRUE

Matching(v, resource, userName) ==
  {c \in v : c.Resource = resource /\ c.UserName = userName}

\* PasswordVault::Retrieve(resource, userName): the credential, or an error
\* when there is none (or the platform fails).
Retrieve(v, resource, userName, fault) ==
  IF fault \/ Matching(v, resource, userName) = {}
    THEN [threw |-> TRUE, data |-> NullRef]
    ELSE [threw |-> FALSE, data |-> RefTo(Deref(Matching(v, resource, userName)))]

\* PasswordVault::Add(credential): stores it, replacing the credential with
\* the same resource and user name.
Add(v, cred, fault) ==
  IF fault
    THEN [threw |-> TRUE, vault |-> v]
    ELSE [threw |-> FALSE,
          vault |-> (v \ Matching(v, cred.Resource, cred.UserName)) \cup {cred}]

\* PasswordVault::Remove(credential): removes the credential with that resource
\* and user name.
Remove(v, cred, fault) ==
  IF fault
    THEN [threw |-> TRUE, vault |-> v]
    ELSE [threw |-> FALSE, vault |-> v \ Matching(v, cred.Resource, cred.UserName)]

\* PasswordVault::FindAllByResource(resource): the credentials of the resource,
\* passwords not loaded; an error when there is none (or the platform fails).
FindAllByResource(v, resource, fault) ==
  LET found == {c \in v : c.Resource = resource}
  IN IF fault \/ found = {}
       THEN [threw |-> TRUE, all |-> {}]
       ELSE [threw |-> FALSE,
             all |-> {PasswordCredential(c.Resource, c.UserName, EmptyString) : c \in found}]

\* ------------------------------------------------------------------ state

VARIABLES
  vault,    \* the credentials in the PasswordVault
  inv,      \* per caller: the invocation in flight (arguments, locals, promise)
  last,     \* the invocation that took the latest step, as that step left it
  written,  \* history: <<collection, key, value, replaced>> of the latest
            \* resolved setItem per (collection, key) that no later resolved
            \* deleteItem took away; replaced: it overwrote a different value
  removed,  \* history: the <<collection, key>> a resolved deleteItem took away
            \* and no later resolved setItem wrote again
  ncalls    \* invocations started so far

vars == <<vault, inv, last, written, removed, ncalls>>

\* The frame of one invocation.  pc: "idle" (none), "run" (entered), "Remove"
\* (deleteItem before vault.Remove), "loop" (getAllItems inside the for loop),
\* "return" (the handler has returned).  allKeys is the enumerated list and
\* visited the part of it the loop has been through.  calls, threw, fault and disturbed are
\* history: the vault calls made, whether one of them raised, whether the
\* platform was made to fail, whether another invocation changed the vault
\* while this one was in flight.
Idle ==
  [pc |-> "idle", op |-> "", key |-> EmptyString, value |-> EmptyString,
   options |-> NoOptions, name |-> EmptyString, data |-> NullRef, allKeys |-> {},
   visited |-> {},
   returnValue |-> EmptyObject, promise |-> <<>>, calls |-> <<>>, threw |-> FALSE,
   fault |-> FALSE, disturbed |-> FALSE]

Begin(op, key, value, options) ==
  [Idle EXCEPT !.pc = "run", !.op = op, !.key = key, !.value = value,
               !.options = options]

\* promise.Resolve / promise.Reject
Settle(f, completion) == [f EXCEPT !.promise = Append(@, completion)]

\* One vault call made by the invocation, with its outcome r.
Called(f, api, r, fault) ==
  [f EXCEPT !.calls = Append(@, api), !.threw = @ \/ r.threw, !.fault = @ \/ fault]

\* The handler returns / goes on to its next vault call.
Return(f, v) == [frame |-> [f EXCEPT !.pc = "return"], vault |-> v]
Continue(f, pc, v) == [frame |-> [f EXCEPT !.pc = pc], vault |-> v]

\* ---------------------------------------------------------------- handlers

\* Mutant of getItem: resolves with the credential's user name, not its password.
getItem_ResolvesUserName(f, v, fault) ==
  IF f.key = EmptyString
    THEN Return(Settle(f, Reject("key is empty")), v)
    ELSE LET name == getSharedPreferences(f.options)
             r == Retrieve(v, to_hstring(name), to_hstring(f.key), fault)
             f1 == Called([f EXCEPT !.name = name], "Retrieve", r, fault)
         IN IF r.threw
              THEN Return(Settle(f1, Reject("cannot access datastore")), v)
            ELSE IF r.data = NullRef
              THEN Return(Settle(f1, Reject("key not found")), v)
            ELSE Return(Settle(f1, ResolveString(to_string(Deref(r.data).UserName))), v)

\* RNSensitiveInfo::getItem
getItem(f, v, fault) ==
  IF f.key = EmptyString
    THEN Return(Settle(f, Reject("key is empty")), v)
    ELSE LET name == getSharedPreferences(f.options)
             r == Retrieve(v, to_hstring(name), to_hstring(f.key), fault)
             f1 == Called([f EXCEPT !.name = name], "Retrieve", r, fault)
         IN IF r.threw
              THEN Return(Settle(f1, Reject("cannot access datastore")), v)
            ELSE IF r.data = NullRef
              THEN Return(Settle(f1, Reject("key not found")), v)
            ELSE Return(Settle(f1, ResolveString(to_string(Deref(r.data).Password))),
                        v)

\* Mutant of setItem: the empty key is not checked.
setItem_NoKeyCheck(f, v, fault) ==
  LET name == getSharedPreferences(f.options)
      creds == PasswordCredential(to_hstring(name), to_hstring(f.key), to_hstring(f.value))
      r == Add(v, creds, fault)
      f1 == Called([f EXCEPT !.name = name], "Add", r, fault)
  IN IF r.threw
       THEN Return(Settle(f1, Reject("cannot access datastore")), v)
       ELSE Return(Settle(f1, ResolveString(f.value)), r.vault)

\* Mutant of setItem: a key that has a credential is left as it is.
setItem_OnlyWhenAbsent(f, v, fault) ==
  IF f.key = EmptyString
    THEN Return(Settle(f, Reject("key is empty")), v)
    ELSE LET name == getSharedPreferences(f.options)
             creds == PasswordCredential(to_hstring(name), to_hstring(f.key),
                                         to_hstring(f.value))
             found == Retrieve(v, creds.Resource, creds.UserName, fault)
             r == IF found.threw THEN Add(v, creds, fault) ELSE [threw |-> FALSE, vault |-> v]
             f1 == Called([f EXCEPT !.name = name], "Add", r, fault)
         IN IF r.threw
              THEN Return(Settle(f1, Reject("cannot access datastore")), v)
              ELSE Return(Settle(f1, ResolveString(f.value)), r.vault)

\* RNSensitiveInfo::setItem
setItem(f, v, fault) ==
  IF f.key = EmptyString
    THEN Return(Settle(f, Reject("key is empty")), v)
    ELSE LET name == getSharedPreferences(f.options)
             creds == PasswordCredential(to_hstring(name), to_hstring(f.key),
                                         to_hstring(f.value))
             r == Add(v, creds, fault)
             f1 == Called([f EXCEPT !.name = name], "Add", r, fault)
         IN IF r.threw
              THEN Return(Settle(f1, Reject("cannot access datastore")), v)
              ELSE Return(Settle(f1, ResolveString(f.value)), r.vault)

\* Mutant of deleteItem: no return after rejecting the empty key.
deleteItem_NoReturn(f, v, fault) ==
  LET f0 == IF f.key = EmptyString THEN Settle(f, Reject("key is empty")) ELSE f
      name == getSharedPreferences(f.options)
      r == Retrieve(v, to_hstring(name), to_hstring(f.key), fault)
      f1 == Called([f0 EXCEPT !.name = name, !.data = r.data], "Retrieve", r, fault)
  IN IF r.threw
       THEN Return(Settle(f1, Reject("cannot access datastore")), v)
     ELSE IF r.data = NullRef
       THEN Return(Settle(f1, Reject("key not found")), v)
     ELSE Continue(f1, "Remove", v)

\* RNSensitiveInfo::deleteItem, up to and including vault.Retrieve
deleteItem(f, v, fault) ==
  IF f.key = EmptyString
    THEN Return(Settle(f, Reject("key is empty")), v)
    ELSE LET name == getSharedPreferences(f.options)
             r == Retrieve(v, to_hstring(name), to_hstring(f.key), fault)
             f1 == Called([f EXCEPT !.name = name, !.data = r.data], "Retrieve", r, fault)
         IN IF r.threw
              THEN Return(Settle(f1, Reject("cannot access datastore")), v)
            ELSE IF r.data = NullRef
              THEN Return(Settle(f1, Reject("key not found")), v)
            ELSE Continue(f1, "Remove", v)

\* Mutant of deleteItem_Remove: every credential of the resource is removed.
deleteItem_Remove_WholeResource(f, v, fault) ==
  LET r == IF fault
             THEN [threw |-> TRUE, vault |-> v]
             ELSE [threw |-> FALSE,
                   vault |-> {c \in v : c.Resource # Deref(f.data).Resource}]
      f1 == Called(f, "Remove", r, fault)
  IN IF r.threw
       THEN Return(Settle(f1, Reject("cannot access datastore")), v)
       ELSE Return(Settle(f1, ResolveString(f.key)), r.vault)

\* RNSensitiveInfo::deleteItem, vault.Remove(data) and promise.Resolve(key)
deleteItem_Remove(f, v, fault) ==
  LET r == Remove(v, Deref(f.data), fault)
      f1 == Called(f, "Remove", r, fault)
  IN IF r.threw
       THEN Return(Settle(f1, Reject("cannot access datastore")), v)
       ELSE Return(Settle(f1, ResolveString(f.key)), r.vault)

\* RNSensitiveInfo::getAllItems, up to the for loop
getAllItems(f, v, fault) ==
  LET name == getSharedPreferences(f.options)
      r == FindAllByResource(v, to_hstring(name), fault)
      f1 == Called([f EXCEPT !.name = name, !.allKeys = r.all], "FindAllByResource",
                   r, fault)
  IN IF r.threw
       THEN Return(Settle(f1, Reject("cannot access datastore")), v)
     ELSE IF r.all = {}
       THEN Return(Settle(f1, ResolveObject(f1.returnValue)), v)
     ELSE Continue(f1, "loop", v)

\* Mutant of getAllItems_loop: a record whose re-read fails is skipped.
getAllItems_loop_SkipsFailed(f, key, v, fault) ==
  LET r == Retrieve(v, to_hstring(f.name), key.UserName, fault)
      f1 == Called(f, "Retrieve", r, fault)
      f2 == IF r.threw
              THEN [f1 EXCEPT !.visited = @ \cup {key}]
              ELSE [f1 EXCEPT
                      !.returnValue = (to_string(key.UserName)
                                         :> to_string(Deref(r.data).Password)) @@ @,
                      !.visited = @ \cup {key}]
  IN IF f2.visited = f2.allKeys
       THEN Return(Settle(f2, ResolveObject(f2.returnValue)), v)
       ELSE Continue(f2, "loop", v)

\* RNSensitiveInfo::getAllItems, one iteration of the for loop over allKeys
\* (key is the element the enumeration yields next), and promise.Resolve
\* after the last one
getAllItems_loop(f, key, v, fault) ==
  LET r == Retrieve(v, to_hstring(f.name), key.UserName, fault)
      f1 == Called(f, "Retrieve", r, fault)
  IN IF r.threw
       THEN Return(Settle(f1, Reject("cannot access datastore")), v)
       ELSE LET f2 == [f1 EXCEPT
                         !.returnValue = (to_string(key.UserName)
                                            :> to_string(Deref(r.data).Password)) @@ @,
                         !.visited = @ \cup {key}]
            IN IF f2.visited = f2.allKeys
                 THEN Return(Settle(f2, ResolveObject(f2.returnValue)), v)
                 ELSE Continue(f2, "loop", v)

\* RNSensitiveInfo::isSensorAvailable
isSensorAvailable(f, v) == Return(Settle(f, ResolveBool(FALSE)), v)

\* RNSensitiveInfo::hasEnrolledFingerprints
hasEnrolledFingerprints(f, v) == Return(Settle(f, ResolveBool(FALSE)), v)

\* ----------------------------------------------------------------- actions

SamePair(t, name, key) == t[1] = name /\ t[2] = key

\* The collection the caller names: options.sharedPreferencesName, or
\* "shared_preferences" when the caller gives none.
CollectionOf(options) ==
  IF options = NoOptions THEN SharedPreferencesLiteral
  ELSE options["sharedPreferencesName"]

\* The invocation f has returned with its promise resolved.
HasResolved(f) ==
  f.pc = "return" /\ f.promise # <<>> /\ f.promise[1].kind = "resolve"

\* The step r of caller p takes effect.
Commit(p, r) ==
  /\ last' = r.frame
  /\ vault' = r.vault
  /\ inv' = [q \in Procs |->
               IF q = p
                 THEN IF r.frame.pc = "return" THEN Idle ELSE r.frame
               ELSE IF inv[q].pc # "idle" /\ r.vault # vault
                 THEN [inv[q] EXCEPT !.disturbed = TRUE]
               ELSE inv[q]]
  /\ written' =
       LET c == CollectionOf(r.frame.options)
           same == {t \in written : SamePair(t, c, r.frame.key)}
       IN IF HasResolved(r.frame) /\ r.frame.op = "setItem"
            THEN (written \ same)
                   \cup {<<c, r.frame.key, r.frame.value,
                           \E t \in same : t[3] # r.frame.value>>}
          ELSE IF HasResolved(r.frame) /\ r.frame.op = "deleteItem"
            THEN written \ same
          ELSE written
  /\ removed' =
       LET c == CollectionOf(r.frame.options)
       IN IF HasResolved(r.frame) /\ r.frame.op = "setItem"
            THEN removed \ {<<c, r.frame.key>>}
          ELSE IF HasResolved(r.frame) /\ r.frame.op = "deleteItem"
            THEN removed \cup {<<c, r.frame.key>>}
          ELSE removed

\* A caller with no invocation in flight makes the next one.
Invoke(p) ==
  /\ inv[p].pc = "idle"
  /\ ncalls < MaxCalls
  /\ ncalls' = ncalls + 1

CallGetItem(p) ==
  /\ Invoke(p)
  /\ \E key \in Keys, options \in Options, fault \in BOOLEAN :
       Commit(p, getItem(Begin("getItem", key, EmptyString, options), vault, fault))

CallSetItem(p) ==
  /\ Invoke(p)
  /\ \E key \in Keys, value \in Values, options \in Options, fault \in BOOLEAN :
       Commit(p, setItem(Begin("setItem", key, value, options), vault, fault))

CallDeleteItem(p) ==
  /\ Invoke(p)
  /\ \E key \in Keys, options \in Options, fault \in BOOLEAN :
       Commit(p, deleteItem(Begin("deleteItem", key, EmptyString, options), vault, fault))

StepDeleteItemRemove(p) ==
  /\ inv[p].pc = "Remove"
  /\ UNCHANGED ncalls
  /\ \E fault \in BOOLEAN : Commit(p, deleteItem_Remove(inv[p], vault, fault))

CallGetAllItems(p) ==
  /\ Invoke(p)
  /\ \E options \in Options, fault \in BOOLEAN :
       Commit(p, getAllItems(Begin("getAllItems", EmptyString, EmptyString, options),
                             vault, fault))

StepGetAllItemsLoop(p) ==
  /\ inv[p].pc = "loop"
  /\ UNCHANGED ncalls
  /\ \E key \in inv[p].allKeys \ inv[p].visited, fault \in BOOLEAN :
       Commit(p, getAllItems_loop(inv[p], key, vault, fault))

CallIsSensorAvailable(p) ==
  /\ Invoke(p)
  /\ Commit(p, isSensorAvailable(Begin("isSensorAvailable", EmptyString, EmptyString,
                                       NoOptions), vault))

CallHasEnrolledFingerprints(p) ==
  /\ Invoke(p)
  /\ Commit(p, hasEnrolledFingerprints(Begin("hasEnrolledFingerprints", EmptyString,
                                             EmptyString, NoOptions), vault))

Init ==
  /\ vault = {}
  /\ inv = [p \in Procs |-> Idle]
  /\ last = Idle
  /\ written = {}
  /\ removed = {}
  /\ ncalls = 0

Next ==
  \E p \in Procs :
    \/ CallGetItem(p)
    \/ CallSetItem(p)
    \/ CallDeleteItem(p)
    \/ StepDeleteItemRemove(p)
    \/ CallGetAllItems(p)
    \/ StepGetAllItemsLoop(p)
    \/ CallIsSensorAvailable(p)
    \/ CallHasEnrolledFingerprints(p)

Spec == Init /\ [][Next]_vars

\* ------------------------------------------------------------ properties

Returned == last.pc = "return"
Resolved == HasResolved(last)
KeyedOps == {"getItem", "setItem", "deleteItem"}
Probes == {"isSensorAvailable", "hasEnrolledFingerprints"}
Reasons == {"key is empty", "key not found", "cannot access datastore"}

\* The credentials stored for collection c and key k.
RecordsAt(v, c, k) == Matching(v, to_hstring(c), to_hstring(k))

\* C1: a getItem, setItem or deleteItem whose key is the empty string returns
\* with its promise rejected with "key is empty", has made no vault call, and
\* leaves the vault as it was, whatever the options and the vault.
C1_EmptyKeyRejectedWithoutVaultCall ==
  [][(last'.op \in KeyedOps /\ last'.key = EmptyString)
       => /\ last'.pc = "return"
          /\ last'.promise = <<Reject("key is empty")>>
          /\ last'.calls = <<>>
          /\ vault' = vault]_vars

C1_Witness ==
  /\ last.op = "deleteItem"
  /\ last.key = EmptyString
  /\ last.options = OptionsOf(OtherName)
  /\ last.promise = <<Reject("key is empty")>>
  /\ vault # {}

\* C2: a setItem that resolves, resolves with the value it was passed; and a
\* getItem (the platform not failing) on a (collection, key) whose latest
\* resolved setItem passed v, no deleteItem having resolved on it since,
\* resolves with exactly v.
C2_RoundTrip ==
  /\ (last.op = "setItem" /\ Resolved) => last.promise = <<ResolveString(last.value)>>
  /\ \A t \in written :
       (/\ last.op = "getItem"
        /\ Returned
        /\ ~last.fault
        /\ SamePair(t, CollectionOf(last.options), last.key))
         => last.promise = <<ResolveString(t[3])>>

C2_Witness ==
  /\ last.op = "getItem"
  /\ last.key = KeyE
  /\ last.options = OptionsOf(OtherName)
  /\ <<OtherName, KeyE, ValueGrin, FALSE>> \in written
  /\ last.promise = <<ResolveString(ValueGrin)>>

\* C3: the vault holds at most one credential per (resource, user name); the
\* credentials are exactly those of the latest resolved setItem of each
\* (collection, key), so a setItem on an existing pair overwrites; and a getItem
\* that resolves, resolves with the value of that latest setItem.
C3_OneRecordPerPairLastWriteWins ==
  /\ \A c1, c2 \in vault :
       (c1.Resource = c2.Resource /\ c1.UserName = c2.UserName) => c1 = c2
  /\ vault = {PasswordCredential(to_hstring(t[1]), to_hstring(t[2]), to_hstring(t[3])) :
                t \in written}
  /\ \A t1, t2 \in written : SamePair(t1, t2[1], t2[2]) => t1 = t2
  /\ (last.op = "getItem" /\ Resolved)
       => \E t \in written :
            /\ SamePair(t, CollectionOf(last.options), last.key)
            /\ last.promise = <<ResolveString(t[3])>>

C3_Witness ==
  /\ last.op = "getItem"
  /\ last.key = KeyA
  /\ <<SharedPreferencesLiteral, KeyA, ValueGrin, TRUE>> \in written
  /\ last.promise = <<ResolveString(ValueGrin)>>
  /\ Cardinality(vault) = 1

\* C8: every invocation completes its promise exactly once: none before the
\* handler returns, exactly one when it has returned, and an invocation in
\* flight always has its next step to take; a rejection reason is one of the
\* three reason strings, and the two probes resolve false.
C8_PromiseCompletedExactlyOnce ==
  /\ \A p \in Procs :
       /\ inv[p].pc # "idle" => inv[p].promise = <<>>
       /\ inv[p].pc \in {"idle", "Remove", "loop"}
       /\ inv[p].pc = "Remove" => inv[p].data # NullRef
       /\ inv[p].pc = "loop" => inv[p].allKeys \ inv[p].visited # {}
  /\ Returned => Len(last.promise) = 1
  /\ ~Returned => last.promise = <<>>
  /\ \A i \in DOMAIN last.promise :
       last.promise[i].kind = "reject" => last.promise[i].reason \in Reasons
  /\ (Returned /\ last.op \in Probes) => last.promise = <<ResolveBool(FALSE)>>

C8_Witness ==
  /\ last.op = "deleteItem"
  /\ last.calls = <<"Retrieve", "Remove">>
  /\ last.promise = <<ResolveString(KeyA)>>
  /\ \E p \in Procs : inv[p].pc = "loop" /\ inv[p].disturbed

\* The mapping from key to value of the records stored for collection c.
StoredMapping(v, c) ==
  LET recs == {r \in v : r.Resource = to_hstring(c)}
  IN [k \in {to_string(r.UserName) : r \in recs} |->
        to_string((CHOOSE r \in recs : to_string(r.UserName) = k).Password)]

\* C4: a getItem or deleteItem with a non-empty key on a (collection, key)
\* that holds no record (the platform not failing) rejects with "key not
\* found", and leaves the vault as it was.
C4_AbsentKeyRejectsKeyNotFound ==
  [][(/\ last'.op \in {"getItem", "deleteItem"}
      /\ last'.pc = "return"
      /\ last'.key # EmptyString
      /\ ~last'.fault
      /\ last'.calls = <<"Retrieve">>
      /\ RecordsAt(vault, CollectionOf(last'.options), last'.key) = {})
       => /\ last'.promise = <<Reject("key not found")>>
          /\ vault' = vault]_vars

\* C5: a deleteItem that resolves, resolves with its key and leaves no record
\* at (collection, key); and a getItem (the platform not failing) on a
\* (collection, key) that a deleteItem resolved on, no setItem having resolved
\* on it since, rejects with "key not found".
C5_DeleteThenGetRejectsKeyNotFound ==
  /\ (last.op = "deleteItem" /\ Resolved)
       => /\ last.promise = <<ResolveString(last.key)>>
          /\ RecordsAt(vault, CollectionOf(last.options), last.key) = {}
  /\ (/\ last.op = "getItem"
      /\ Returned
      /\ ~last.fault
      /\ <<CollectionOf(last.options), last.key>> \in removed)
       => last.promise = <<Reject("key not found")>>

\* C6: a getAllItems during which no other invocation changed the vault (the
\* platform not failing) resolves with the mapping of exactly the records
\* stored in its collection, the empty mapping when there is none.
C6_GetAllItemsResolvesStoredMapping ==
  (/\ last.op = "getAllItems"
   /\ Returned
   /\ ~last.fault
   /\ ~last.disturbed)
    => last.promise = <<ResolveObject(StoredMapping(vault, CollectionOf(last.options)))>>

\* What an invocation's first step does, the options aside.
SameOutcome(r1, r2) ==
  /\ r1.vault = r2.vault
  /\ [r1.frame EXCEPT !.options = NoOptions] = [r2.frame EXCEPT !.options = NoOptions]

\* The promise of a getAllItems that runs alone on vault v, the platform not
\* failing.
RECURSIVE RunLoop(_, _)
RunLoop(f, v) ==
  IF f.pc = "loop"
    THEN RunLoop(getAllItems_loop(f, CHOOSE k \in f.allKeys \ f.visited : TRUE,
                                  v, FALSE).frame, v)
    ELSE f.promise
GetAllItemsAlone(options, v) ==
  RunLoop(getAllItems(Begin("getAllItems", EmptyString, EmptyString, options),
                      v, FALSE).frame, v)
GetItemAlone(key, options, v) ==
  getItem(Begin("getItem", key, EmptyString, options), v, FALSE).frame.promise

\* The first step of an invocation of op.
FirstStep(op, key, value, options, v, fault) ==
  LET f == Begin(op, key, value, options)
  IN CASE op = "getItem" -> getItem(f, v, fault)
       [] op = "setItem" -> setItem(f, v, fault)
       [] op = "deleteItem" -> deleteItem(f, v, fault)
       [] op = "getAllItems" -> getAllItems(f, v, fault)
       [] op = "isSensorAvailable" -> isSensorAvailable(f, v)
       [] op = "hasEnrolledFingerprints" -> hasEnrolledFingerprints(f, v)

\* Omitting sharedPreferencesName is the same as passing "shared_preferences":
\* the first step of an invocation without the field leaves the vault and the
\* invocation (name, locals, promise) as the same invocation with
\* "shared_preferences" would; its later steps read only those.
DefaultIsSharedPreferences ==
  (last'.options = NoOptions /\ Len(last'.calls) <= 1)
    => SameOutcome([frame |-> last', vault |-> vault'],
                   FirstStep(last'.op, last'.key, last'.value,
                             OptionsOf(SharedPreferencesLiteral), vault, last'.fault))

\* A step of a setItem or deleteItem on (c1, k) changes no credential of
\* another resource, nor what getItem(k) or getAllItems return for another
\* collection c2.
OtherCollectionsUntouched ==
  (last'.op \in {"setItem", "deleteItem"} /\ vault' # vault)
    => LET c1 == CollectionOf(last'.options)
       IN /\ {c \in vault' : c.Resource # to_hstring(c1)}
               = {c \in vault : c.Resource # to_hstring(c1)}
          /\ \A o2 \in Options :
               CollectionOf(o2) # c1
                 => /\ GetAllItemsAlone(o2, vault') = GetAllItemsAlone(o2, vault)
                    /\ GetItemAlone(last'.key, o2, vault')
                         = GetItemAlone(last'.key, o2, vault)

\* C7: every operation acts on the collection options.sharedPreferencesName
\* names, "shared_preferences" when the field is absent: omitting the field
\* has the same outcome as passing "shared_preferences", and a setItem or
\* deleteItem on one collection changes nothing of another collection.
C7_CollectionsAreIndependent ==
  [][DefaultIsSharedPreferences /\ OtherCollectionsUntouched]_vars

C7_Witness ==
  /\ last.op = "setItem"
  /\ last.key = KeyA
  /\ last.options = OptionsOf(OtherName)
  /\ Resolved
  /\ GetItemAlone(KeyA, NoOptions, vault) = <<ResolveString(Value1)>>
  /\ GetItemAlone(KeyA, OptionsOf(OtherName), vault) = <<ResolveString(ValueGrin)>>

\* C9: an invocation one of whose vault calls failed returns with its promise
\* rejected with "cannot access datastore", and makes no further vault call;
\* a getAllItems that resolves has read every enumerated record, so its
\* mapping has an entry for each of them: no partial mapping is delivered.
C9_VaultFailureRejectsWholeCall ==
  /\ (Returned /\ last.threw) => last.promise = <<Reject("cannot access datastore")>>
  /\ ~Returned => ~last.threw
  /\ \A p \in Procs : ~inv[p].threw
  /\ (last.op = "getAllItems" /\ Resolved)
       => /\ ~last.threw
          /\ last.visited = last.allKeys
          /\ last.promise =
               <<ResolveObject([k \in {to_string(c.UserName) : c \in last.allKeys} |->
                                  last.promise[1].obj[k]])>>

C9_Witness ==
  /\ last.op = "getAllItems"
  /\ Returned
  /\ ~last.fault
  /\ last.threw
  /\ last.disturbed
  /\ last.calls = <<"FindAllByResource", "Retrieve">>
  /\ last.promise = <<Reject("cannot access datastore")>>

\* C10: a step of getItem, getAllItems, isSensorAvailable or
\* hasEnrolledFingerprints leaves the vault unchanged; a step of setItem or
\* deleteItem changes no credential but the one at its (collection, key), and
\* a step of deleteItem adds none; what an invocation does first depends on
\* its arguments and the vault alone, on nothing kept from earlier calls.
C10_Frame ==
  [][/\ last'.op \in {"getItem", "getAllItems"} \cup Probes => vault' = vault
     /\ Len(last'.calls) <= 1
          => [frame |-> last', vault |-> vault']
               = FirstStep(last'.op, last'.key, last'.value, last'.options, vault,
                           last'.fault)
     /\ last'.op \in {"setItem", "deleteItem"}
          => \A c \in vault \cup vault' :
               \/ (c \in vault) = (c \in vault')
               \/ /\ c.Resource = to_hstring(CollectionOf(last'.options))
                  /\ c.UserName = to_hstring(last'.key)
     /\ last'.op = "deleteItem" => vault' \subseteq vault]_vars

C10_Witness ==
  /\ last.op = "deleteItem"
  /\ last.key = KeyA
  /\ Resolved
  /\ GetItemAlone(KeyE, last.options, vault) = <<ResolveString(Value1)>>

====
